---- MODULE Spec2Model ----
(***************************************************************************)
(* Metadata filter expressions (langchain-core/src/filter.ts): the operand *)
(* model, the FilterExpressionBuilder, the negation rewrite and the        *)
(* conversion walk of BaseFilterExpressionConverter, together with the     *)
(* converter subclass of the test-suite (tests/filter.test.ts).            *)
(*                                                                         *)
(* A caller holds one operand (expr), builds it with the builder or with   *)
(* the constructors directly, and calls the converter's public methods on  *)
(* it; result holds the outcome of the last call.                          *)
(***************************************************************************)
EXTENDS Integers, Sequences, FiniteSets, TLC

VARIABLES expr, built, result, heap, held, calls

vars == <<expr, built, result, heap, held, calls>>

\* The objects in memory, the roots the caller holds there, and the calls
\* made on them: the state of the specification SpecHeap.
heapVars == <<heap, held, calls>>

----------------------------------------------------------------------------
(* Bounds of the exploration.                                              *)

\* Builder/constructor calls applied on top of a fresh comparison.
MaxBuilt == 2
\* Longest array handed to the builder.
MaxLen == 2
\* Calls made on the trees held in memory.
MaxCalls == 3

----------------------------------------------------------------------------
(* Operator tags, filter.ts 37-49.  UNKNOWN stands for a number outside    *)
(* the enum, which the untyped runtime accepts as a tag.                   *)

Operator == {"AND", "OR", "EQ", "NE", "GT", "GTE", "LT", "LTE", "IN", "NIN", "NOT"}

ComparisonOperator == {"EQ", "NE", "GT", "GTE", "LT", "LTE", "IN", "NIN"}

UnknownOperator == "UNKNOWN"

----------------------------------------------------------------------------
(* JavaScript values a Value wraps: number | string | boolean | arrays.    *)

Num(n) == [t |-> "number", n |-> n]

NaN == [t |-> "number", nan |-> TRUE]

Str(s) == [t |-> "string", s |-> s]

Bool(b) == [t |-> "boolean", b |-> b]

Arr(elems) == [t |-> "array", elems |-> elems]

IsNaN(v) == v.t = "number" /\ "nan" \in DOMAIN v

\* The truthiness test of `value ? ... : ...`: 0, NaN, "" and false are
\* falsy; every array (the empty one included) is an object, hence truthy.
Truthy(v) ==
  CASE v.t = "number" -> IF IsNaN(v) THEN FALSE ELSE v.n # 0
    [] v.t = "string" -> v.s # ""
    [] v.t = "boolean" -> v.b
    [] v.t = "array" -> TRUE

----------------------------------------------------------------------------
(* Operand model, filter.ts 51-87.                                         *)

Undefined == [node |-> "undefined"]

Key(key) == [node |-> "Key", key |-> key]

Value(value) == [node |-> "Value", value |-> value]

Expression(type, left, right) ==
  [node |-> "Expression", type |-> type, left |-> left, right |-> right]

Group(content) == [node |-> "Group", content |-> content]

----------------------------------------------------------------------------
(* FilterExpressionBuilder, filter.ts 116-202.  Each comparison method     *)
(* wraps the value only when it is truthy.                                 *)

eq(key, value) ==
  Expression("EQ", Key(key), IF Truthy(value) THEN Value(value) ELSE Undefined)

ne(key, value) ==
  Expression("NE", Key(key), IF Truthy(value) THEN Value(value) ELSE Undefined)

gt(key, value) ==
  Expression("GT", Key(key), IF Truthy(value) THEN Value(value) ELSE Undefined)

gte(key, value) ==
  Expression("GTE", Key(key), IF Truthy(value) THEN Value(value) ELSE Undefined)

lt(key, value) ==
  Expression("LT", Key(key), IF Truthy(value) THEN Value(value) ELSE Undefined)

lte(key, value) ==
  Expression("LTE", Key(key), IF Truthy(value) THEN Value(value) ELSE Undefined)

and(left, right) == Expression("AND", left, right)

or(left, right) == Expression("OR", left, right)

\* in() with an empty array treated like a missing value.
in_NonEmpty(key, values) ==
  Expression("IN", Key(key),
             IF values.t = "array" /\ values.elems # <<>> THEN Value(values)
             ELSE Undefined)

in(key, values) ==
  Expression("IN", Key(key), IF Truthy(values) THEN Value(values) ELSE Undefined)

nin(key, values) ==
  Expression("NIN", Key(key), IF Truthy(values) THEN Value(values) ELSE Undefined)

group(content) == Group(content)

not(content) == Expression("NOT", content, Undefined)

\* The builder method named by a comparison tag.
FilterExpressionBuilder(method, key, value) ==
  CASE method = "EQ" -> eq(key, value)
    [] method = "NE" -> ne(key, value)
    [] method = "GT" -> gt(key, value)
    [] method = "GTE" -> gte(key, value)
    [] method = "LT" -> lt(key, value)
    [] method = "LTE" -> lte(key, value)
    [] method = "IN" -> in(key, value)
    [] method = "NIN" -> nin(key, value)

----------------------------------------------------------------------------
(* StringBuilder, filter.ts 207-217, and the text of a number or boolean   *)
(* (Number.prototype.toString / Boolean.prototype.toString).               *)

RECURSIVE Join(_)
Join(buffer) ==
  IF buffer = <<>> THEN "" ELSE Head(buffer) \o Join(Tail(buffer))

Digit(d) ==
  CASE d = 0 -> "0" [] d = 1 -> "1" [] d = 2 -> "2" [] d = 3 -> "3" [] d = 4 -> "4"
    [] d = 5 -> "5" [] d = 6 -> "6" [] d = 7 -> "7" [] d = 8 -> "8" [] d = 9 -> "9"

RECURSIVE Digits(_)
Digits(n) == IF n < 10 THEN Digit(n) ELSE Digits(n \div 10) \o Digit(n % 10)

NumberToString(v) ==
  IF IsNaN(v) THEN "NaN"
  ELSE IF v.n < 0 THEN "-" \o Digits(0 - v.n) ELSE Digits(v.n)

BooleanToString(v) == IF v.b THEN "true" ELSE "false"

\* A conversion context: the StringBuilder the walk appends to, the error
\* thrown so far ("" when none), and the calls made on the way.
StringBuilder == [err |-> "", buffer |-> <<>>, trace |-> <<>>]

append(context, str) == [context EXCEPT !.buffer = Append(@, str)]

toString(context) == Join(context.buffer)

Throw(context, message) == [context EXCEPT !.err = message]

Failed(context) == context.err # ""

Enter(context, fn, arg) ==
  [context EXCEPT !.trace = Append(@, [fn |-> fn, arg |-> arg])]

----------------------------------------------------------------------------
(* Error messages, filter.ts 343, 373, 389, 449, 452, 466 and the          *)
(* TypeError of reading a property of undefined.                           *)

UnsupportedExpressionType == "Unsupported expression type"

MalformedExpression == "Non AND/OR expression must have Value right argument!"

UnexpectedOperandType == "Unexpected operand type"

UnknownExpressionType == "Unknown expression type"

CannotNegateOperand == "Cannot negate operand of type"

MustBeImplemented == "must be implemented in derived class"

TypeError == "TypeError"

----------------------------------------------------------------------------
(* Negation, filter.ts 274-286 and 409-454.  The result is the operand     *)
(* returned (val) or the error thrown (err).                               *)

\* The table with AND and OR left as they are.
TYPE_NEGATION_MAP_KeepsCombinator(type) ==
  CASE type = "AND" -> "AND"
    [] type = "OR" -> "OR"
    [] type = "EQ" -> "NE"
    [] type = "NE" -> "EQ"
    [] type = "GT" -> "LTE"
    [] type = "GTE" -> "LT"
    [] type = "LT" -> "GTE"
    [] type = "LTE" -> "GT"
    [] type = "IN" -> "NIN"
    [] type = "NIN" -> "IN"
    [] type = "NOT" -> "NOT"

\* The table with the strict and non-strict orderings confused.
TYPE_NEGATION_MAP_StrictOrder(type) ==
  CASE type = "AND" -> "OR"
    [] type = "OR" -> "AND"
    [] type = "EQ" -> "NE"
    [] type = "NE" -> "EQ"
    [] type = "GT" -> "LT"
    [] type = "GTE" -> "LTE"
    [] type = "LT" -> "GT"
    [] type = "LTE" -> "GTE"
    [] type = "IN" -> "NIN"
    [] type = "NIN" -> "IN"
    [] type = "NOT" -> "NOT"

TYPE_NEGATION_MAP(type) ==
  CASE type = "AND" -> "OR"
    [] type = "OR" -> "AND"
    [] type = "EQ" -> "NE"
    [] type = "NE" -> "EQ"
    [] type = "GT" -> "LTE"
    [] type = "GTE" -> "LT"
    [] type = "LT" -> "GTE"
    [] type = "LTE" -> "GT"
    [] type = "IN" -> "NIN"
    [] type = "NIN" -> "IN"
    [] type = "NOT" -> "NOT"

Returned(operand) == [err |-> "", val |-> operand]

Thrown(message) == [err |-> message, val |-> Undefined]

\* negateOperand without the unwrapping of a negated content that is a Group.
RECURSIVE negateOperand_KeepsGroups(_)
negateOperand_KeepsGroups(operand) ==
  IF operand.node = "Group" THEN
    LET inEx == negateOperand_KeepsGroups(operand.content) IN
      IF inEx.err # "" THEN inEx
      ELSE Returned(Group(inEx.val))
  ELSE IF operand.node = "Expression" THEN
    CASE operand.type = "NOT" -> negateOperand_KeepsGroups(operand.left)
      [] operand.type \in {"AND", "OR"} ->
           LET l == negateOperand_KeepsGroups(operand.left) IN
             IF l.err # "" THEN l
             ELSE LET r == negateOperand_KeepsGroups(operand.right) IN
               IF r.err # "" THEN r
               ELSE Returned(Expression(TYPE_NEGATION_MAP(operand.type), l.val, r.val))
      [] operand.type \in ComparisonOperator ->
           Returned(Expression(TYPE_NEGATION_MAP(operand.type),
                               operand.left, operand.right))
      [] OTHER -> Thrown(UnknownExpressionType)
  ELSE Thrown(CannotNegateOperand)

RECURSIVE negateOperand(_)
negateOperand(operand) ==
  IF operand.node = "Group" THEN
    LET inEx == negateOperand(operand.content) IN
      IF inEx.err # "" THEN inEx
      ELSE IF inEx.val.node = "Group" THEN Returned(Group(inEx.val.content))
      ELSE Returned(Group(inEx.val))
  ELSE IF operand.node = "Expression" THEN
    CASE operand.type = "NOT" -> negateOperand(operand.left)
      [] operand.type \in {"AND", "OR"} ->
           LET l == negateOperand(operand.left) IN
             IF l.err # "" THEN l
             ELSE LET r == negateOperand(operand.right) IN
               IF r.err # "" THEN r
               ELSE Returned(Expression(TYPE_NEGATION_MAP(operand.type), l.val, r.val))
      [] operand.type \in ComparisonOperator ->
           Returned(Expression(TYPE_NEGATION_MAP(operand.type),
                               operand.left, operand.right))
      [] OTHER -> Thrown(UnknownExpressionType)
  ELSE Thrown(CannotNegateOperand)

----------------------------------------------------------------------------
(* Converters.  A converter is BaseFilterExpressionConverter or a subclass *)
(* of it, given by the set of hooks the subclass overrides; an overridden  *)
(* hook behaves as in TestFilterExpressionConverter (filter.test.ts 13-50).*)

BaseFilterExpressionConverter == {}

\* A subclass that supplies field rendering only.
KeyOnlyConverter == {"convertKeyToContext"}

\* A subclass that supplies field rendering and infix expressions only.
InfixConverter == {"convertKeyToContext", "convertExpressionToContext"}

TestFilterExpressionConverter ==
  {"convertExpressionToContext", "convertKeyToContext", "writeValueRangeStart",
   "writeValueRangeEnd", "writeGroupStart", "writeGroupEnd"}

Converters ==
  {BaseFilterExpressionConverter, KeyOnlyConverter, InfixConverter,
   TestFilterExpressionConverter}

----------------------------------------------------------------------------
(* The conversion walk, filter.ts 306-400 and 465-576.                     *)

\* The symbol table; "" stands for the undefined of a missing entry.
symbolMap(type) ==
  CASE type = "AND" -> " AND "
    [] type = "OR" -> " OR "
    [] type = "EQ" -> " = "
    [] type = "NE" -> " != "
    [] type = "LT" -> " < "
    [] type = "LTE" -> " <= "
    [] type = "GT" -> " > "
    [] type = "GTE" -> " >= "
    [] type = "IN" -> " IN "
    [] type = "NOT" -> " NOT IN "
    [] type = "NIN" -> " NOT IN "
    [] OTHER -> ""

convertSymbolToContext(exp, context) ==
  LET entered == Enter(context, "convertSymbolToContext", exp) IN
    IF symbolMap(exp.type) # "" THEN append(entered, symbolMap(exp.type))
    ELSE Throw(entered, UnsupportedExpressionType)

convertKeyToContext(converter, filterKey, context) ==
  IF "convertKeyToContext" \in converter
  THEN append(context, "'$." \o filterKey.key \o "'")
  ELSE Throw(context, MustBeImplemented)

convertSingleValueToContext(value, context) ==
  IF value.t = "string" THEN append(context, "'" \o value.s \o "'")
  ELSE IF value.t = "number" THEN append(context, NumberToString(value))
  ELSE append(context, BooleanToString(value))

\* A group start that the base class writes as well.
writeGroupStart_Default(converter, group_, context) == append(context, "(")

writeGroupStart(converter, group_, context) ==
  IF "writeGroupStart" \in converter THEN append(context, "(") ELSE context

\* A group end that every converter leaves empty.
writeGroupEnd_Empty(converter, group_, context) == context

writeGroupEnd(converter, group_, context) ==
  IF "writeGroupEnd" \in converter THEN append(context, ")") ELSE context

writeValueRangeStart(converter, listValue, context) == append(context, "[")

writeValueRangeEnd(converter, listValue, context) == append(context, "]")

\* A separator followed by a blank.
writeValueRangeSeparator_Blank(converter, listValue, context) == append(context, ", ")

writeValueRangeSeparator(converter, listValue, context) == append(context, ",")

\* The loop of convertValueToContext from index i (0-based) on.
RECURSIVE ValueRangeLoop(_, _, _, _)
ValueRangeLoop(converter, filterValue, i, context) ==
  IF ~(i < Len(filterValue.value.elems)) THEN context
  ELSE LET one == convertSingleValueToContext(filterValue.value.elems[i + 1], context)
           sep == IF i < Len(filterValue.value.elems) - 1
                  THEN writeValueRangeSeparator(converter, filterValue, one)
                  ELSE one
       IN ValueRangeLoop(converter, filterValue, i + 1, sep)

convertValueToContext(converter, filterValue, context) ==
  IF filterValue.value.t = "array"
  THEN writeValueRangeEnd(converter, filterValue,
         ValueRangeLoop(converter, filterValue, 0,
           writeValueRangeStart(converter, filterValue, context)))
  ELSE convertSingleValueToContext(filterValue.value, context)

\* The structure check with a missing right operand let through.
IsMalformed_UnlessAbsent(exp) ==
  /\ exp.type # "NOT"
  /\ exp.type # "AND"
  /\ exp.type # "OR"
  /\ exp.right.node # "undefined"
  /\ exp.right.node # "Value"

\* The structure check of an Expression, filter.ts 365-371.
IsMalformed(exp) ==
  /\ exp.type # "NOT"
  /\ exp.type # "AND"
  /\ exp.type # "OR"
  /\ exp.right.node # "Value"

RECURSIVE convertOperandToContext(_, _, _)
RECURSIVE convertNotExpressionToContext(_, _, _)
RECURSIVE convertExpressionToContext(_, _, _)
RECURSIVE convertGroupToContext(_, _, _)

convertOperandToContext(converter, operand, context) ==
  LET entered == Enter(context, "convertOperandToContext", operand) IN
    CASE operand.node = "Group" -> convertGroupToContext(converter, operand, entered)
      [] operand.node = "Key" -> convertKeyToContext(converter, operand, entered)
      [] operand.node = "Value" -> convertValueToContext(converter, operand, entered)
      [] operand.node = "Expression" ->
           IF IsMalformed(operand)
           THEN Throw(entered, MalformedExpression)
           ELSE IF operand.type = "NOT"
           THEN convertNotExpressionToContext(converter, operand, entered)
           ELSE convertExpressionToContext(converter, operand, entered)
      [] operand.node = "undefined" -> Throw(entered, TypeError)
      [] OTHER -> Throw(entered, UnexpectedOperandType)

\* A NOT rendered like any other expression, without the negation.
convertNotExpressionToContext_Unresolved(converter, expression, context) ==
  convertExpressionToContext(converter, expression, context)

convertNotExpressionToContext(converter, expression, context) ==
  LET negated == negateOperand(expression) IN
    IF negated.err # "" THEN Throw(context, negated.err)
    ELSE convertOperandToContext(converter, negated.val, context)

convertExpressionToContext(converter, expression, context) ==
  LET entered == Enter(context, "convertExpressionToContext", expression) IN
    IF "convertExpressionToContext" \notin converter
    THEN Throw(entered, MustBeImplemented)
    ELSE LET l == convertOperandToContext(converter, expression.left, entered) IN
      IF Failed(l) THEN l
      ELSE LET s == convertSymbolToContext(expression, l) IN
        IF Failed(s) THEN s
        ELSE convertOperandToContext(converter, expression.right, s)

convertGroupToContext(converter, group_, context) ==
  LET content == convertOperandToContext(converter, group_.content,
                   writeGroupStart(converter, group_, context)) IN
    IF Failed(content) THEN content
    ELSE writeGroupEnd(converter, group_, content)

\* convertOperand: a fresh StringBuilder, the walk, then toString.
convertOperand(converter, operand) ==
  LET context == convertOperandToContext(converter, operand, StringBuilder) IN
    [err |-> context.err,
     out |-> IF Failed(context) THEN "" ELSE toString(context),
     trace |-> context.trace]

convertExpression(converter, expression) == convertOperand(converter, expression)

\* The operand whose text the walk appends for `operand`: the walk replaces
\* each NOT it meets by negateOperand of it (filter.ts 379-381, 398-400) and
\* descends into the children of every other node (filter.ts 465-478 as
\* overridden in filter.test.ts 25-29, and filter.ts 521-525).
RECURSIVE RenderedOperand(_)
RenderedOperand(operand) ==
  IF operand.node = "Group" THEN Group(RenderedOperand(operand.content))
  ELSE IF operand.node = "Expression" /\ operand.type = "NOT"
  THEN RenderedOperand(negateOperand(operand).val)
  ELSE IF operand.node = "Expression" /\ operand.type \in {"AND", "OR"}
  THEN Expression(operand.type, RenderedOperand(operand.left),
                  RenderedOperand(operand.right))
  ELSE operand

----------------------------------------------------------------------------
(* The same operations on objects in memory, filter.ts 51-87, 207-217,     *)
(* 306-319 and 353-454.  A heap is the sequence of the objects allocated   *)
(* so far and a reference is an index into it, 0 being undefined.  An      *)
(* Expression or Group object holds the references of its operands, a      *)
(* StringBuilder object holds its buffer.  Nothing is ever freed: an       *)
(* object no longer referenced stays where it is.                          *)

\* `new`: the object is appended and its reference is returned.
New(h, object) == [heap |-> Append(h, object), ref |-> Len(h) + 1]

\* The constructors applied bottom-up: the objects of `operand` in memory.
RECURSIVE Construct(_, _)
Construct(h, operand) ==
  CASE operand.node = "undefined" -> [heap |-> h, ref |-> 0]
    [] operand.node = "Expression" ->
         LET l == Construct(h, operand.left)
             r == Construct(l.heap, operand.right)
         IN New(r.heap, [node |-> "Expression", type |-> operand.type,
                         left |-> l.ref, right |-> r.ref])
    [] operand.node = "Group" ->
         LET c == Construct(h, operand.content)
         IN New(c.heap, [node |-> "Group", content |-> c.ref])
    [] OTHER -> New(h, operand)

\* The operand a reference denotes: the fields of the objects reachable
\* from it, read as a tree.
RECURSIVE OperandAt(_, _)
OperandAt(h, ref) ==
  IF ref = 0 THEN Undefined
  ELSE CASE h[ref].node = "Expression" ->
              Expression(h[ref].type, OperandAt(h, h[ref].left),
                         OperandAt(h, h[ref].right))
         [] h[ref].node = "Group" -> Group(OperandAt(h, h[ref].content))
         [] OTHER -> h[ref]

ReturnedOnHeap(h, ref) == [heap |-> h, err |-> "", ref |-> ref]

ThrownOnHeap(h, message) == [heap |-> h, err |-> message, ref |-> 0]

\* A comparison negated by overwriting the tag of the object itself.
NegatedComparisonOnHeap_InPlace(h, ref) ==
  ReturnedOnHeap([h EXCEPT ![ref].type = TYPE_NEGATION_MAP(@)], ref)

\* filter.ts 442-446: a new Expression with the inverse tag and the SAME
\* left and right objects as the comparison.
NegatedComparisonOnHeap(h, ref) ==
  LET negated == New(h, [node |-> "Expression",
                         type |-> TYPE_NEGATION_MAP(h[ref].type),
                         left |-> h[ref].left, right |-> h[ref].right])
  IN ReturnedOnHeap(negated.heap, negated.ref)

\* negateOperand, filter.ts 409-454.  What was allocated before a throw
\* stays allocated.
RECURSIVE negateOperandOnHeap(_, _)
negateOperandOnHeap(h, ref) ==
  IF ref = 0 THEN ThrownOnHeap(h, CannotNegateOperand)
  ELSE IF h[ref].node = "Group" THEN
    LET inEx == negateOperandOnHeap(h, h[ref].content) IN
      IF inEx.err # "" THEN inEx
      ELSE LET content == IF inEx.heap[inEx.ref].node = "Group"
                          THEN inEx.heap[inEx.ref].content
                          ELSE inEx.ref
               negated == New(inEx.heap, [node |-> "Group", content |-> content])
           IN ReturnedOnHeap(negated.heap, negated.ref)
  ELSE IF h[ref].node = "Expression" THEN
    CASE h[ref].type = "NOT" -> negateOperandOnHeap(h, h[ref].left)
      [] h[ref].type \in {"AND", "OR"} ->
           LET l == negateOperandOnHeap(h, h[ref].left) IN
             IF l.err # "" THEN l
             ELSE LET r == negateOperandOnHeap(l.heap, h[ref].right) IN
               IF r.err # "" THEN r
               ELSE LET negated == New(r.heap,
                          [node |-> "Expression",
                           type |-> TYPE_NEGATION_MAP(h[ref].type),
                           left |-> l.ref, right |-> r.ref])
                    IN ReturnedOnHeap(negated.heap, negated.ref)
      [] h[ref].type \in ComparisonOperator -> NegatedComparisonOnHeap(h, ref)
      [] OTHER -> ThrownOnHeap(h, UnknownExpressionType)
  ELSE ThrownOnHeap(h, CannotNegateOperand)

\* The memory during a walk: the heap and the error thrown, if any.
Memory(h) == [heap |-> h, err |-> ""]

ThrowOnHeap(m, message) == [m EXCEPT !.err = message]

\* A hook that only reads its operand and calls StringBuilder.append on the
\* context it is given (filter.ts 210-212): what it appended lands in the
\* buffer of the object `context`, and what it threw is thrown.
WrittenOnHeap(m, context, local) ==
  [heap |-> [m.heap EXCEPT ![context].buffer = @ \o local.buffer],
   err |-> local.err]

\* The structure check of filter.ts 365-371 on an Expression object.
IsMalformedOnHeap(h, exp) ==
  /\ exp.type # "NOT"
  /\ exp.type # "AND"
  /\ exp.type # "OR"
  /\ ~(exp.right # 0 /\ h[exp.right].node = "Value")

RECURSIVE convertOperandToContextOnHeap(_, _, _, _)
RECURSIVE convertNotExpressionToContextOnHeap(_, _, _, _)
RECURSIVE convertExpressionToContextOnHeap(_, _, _, _)
RECURSIVE convertGroupToContextOnHeap(_, _, _, _)

convertOperandToContextOnHeap(converter, m, ref, context) ==
  IF ref = 0 THEN ThrowOnHeap(m, TypeError)
  ELSE
    CASE m.heap[ref].node = "Group" ->
           convertGroupToContextOnHeap(converter, m, ref, context)
      [] m.heap[ref].node = "Key" ->
           WrittenOnHeap(m, context,
             convertKeyToContext(converter, m.heap[ref], StringBuilder))
      [] m.heap[ref].node = "Value" ->
           WrittenOnHeap(m, context,
             convertValueToContext(converter, m.heap[ref], StringBuilder))
      [] m.heap[ref].node = "Expression" ->
           IF IsMalformedOnHeap(m.heap, m.heap[ref])
           THEN ThrowOnHeap(m, MalformedExpression)
           ELSE IF m.heap[ref].type = "NOT"
           THEN convertNotExpressionToContextOnHeap(converter, m, ref, context)
           ELSE convertExpressionToContextOnHeap(converter, m, ref, context)
      [] OTHER -> ThrowOnHeap(m, UnexpectedOperandType)

convertNotExpressionToContextOnHeap(converter, m, ref, context) ==
  LET negated == negateOperandOnHeap(m.heap, ref) IN
    IF negated.err # ""
    THEN [heap |-> negated.heap, err |-> negated.err]
    ELSE convertOperandToContextOnHeap(converter, Memory(negated.heap),
                                       negated.ref, context)

convertExpressionToContextOnHeap(converter, m, ref, context) ==
  IF "convertExpressionToContext" \notin converter
  THEN ThrowOnHeap(m, MustBeImplemented)
  ELSE LET l == convertOperandToContextOnHeap(converter, m, m.heap[ref].left,
                                              context) IN
    IF l.err # "" THEN l
    ELSE LET s == WrittenOnHeap(l, context,
                    convertSymbolToContext(l.heap[ref], StringBuilder)) IN
      IF s.err # "" THEN s
      ELSE convertOperandToContextOnHeap(converter, s, s.heap[ref].right,
                                         context)

convertGroupToContextOnHeap(converter, m, ref, context) ==
  LET start == WrittenOnHeap(m, context,
                 writeGroupStart(converter, m.heap[ref], StringBuilder))
      content == convertOperandToContextOnHeap(converter, start,
                   start.heap[ref].content, context)
  IN IF content.err # "" THEN content
     ELSE WrittenOnHeap(content, context,
            writeGroupEnd(converter, content.heap[ref], StringBuilder))

\* filter.ts 316: const context = new StringBuilder().
NewStringBuilder(h) == New(h, [node |-> "StringBuilder", buffer |-> <<>>])

\* convertOperand, filter.ts 315-319: a new StringBuilder, the walk, and the
\* text of that StringBuilder when the walk did not throw.
convertOperandOnHeap(converter, h, ref) ==
  LET context == NewStringBuilder(h)
      walked == convertOperandToContextOnHeap(converter, Memory(context.heap),
                                              ref, context.ref)
  IN [heap |-> walked.heap, err |-> walked.err, context |-> context.ref,
      out |-> IF walked.err # "" THEN ""
              ELSE Join(walked.heap[context.ref].buffer)]

convertExpressionOnHeap(converter, h, ref) == convertOperandOnHeap(converter, h, ref)

----------------------------------------------------------------------------
(* Inputs of the exploration.                                              *)

\* Values of the comparison specification: every scalar kind, truthy and
\* falsy, and homogeneous arrays of 0..MaxLen elements.
Scalars ==
  {Num(0), Num(2015), Num(-7), NaN, Str(""), Str("john"), Bool(TRUE), Bool(FALSE)}

ArraysOver(elements) ==
  {Arr(a) : a \in UNION {[1..n -> elements] : n \in 0..MaxLen}}

Values == Scalars \cup ArraysOver({Num(2015), Num(2018)}) \cup ArraysOver({Str("jack")})

Keys == {"a", "firstname"}

\* Values and keys of the comparisons that trees are grown from.
TreeValues == {Num(0), Str("martin"), Arr(<<Num(2015), Num(2018)>>)}

TreeKeys == {"name"}

\* Operands a combinator joins to the caller's operand.
Others ==
  {lt("a", Num(2015)),
   group(or(eq("firstname", Str("john")), eq("firstname", Str("jack"))))}

\* Right operands of an Expression constructed without the builder.
Rights == {Key("b"), eq("b", Num(1)), group(eq("b", Num(1))), Value(Num(1))}

\* Operands constructed without the builder: a bare Key, a bare Value, and a
\* Group around the negation of a Group.
Operands ==
  {Key("b"), Value(Num(1)), Group(not(group(eq("b", Num(1)))))}

\* Tags of such an Expression: a comparison, or a number outside the enum.
NewTypes == {"EQ", UnknownOperator}

\* Buffers a caller hands to convertSymbolToContext.
Buffers == {<<>>, <<"'$.a'">>}

\* The trees a caller holds in memory: a negated comparison, a negated
\* conjunction with a group, a negation inside groups, and a negated
\* comparison whose value the builder dropped.
HeldTrees ==
  { not(eq("name", Str("martin"))),
    not(and(eq("name", Str("martin")), group(lt("a", Num(2015))))),
    group(not(group(lt("a", Num(2015))))),
    not(eq("name", Num(0))) }

\* The converters called on them.
HeapConverters == {BaseFilterExpressionConverter, TestFilterExpressionConverter}

NoResult ==
  [call |-> "none", converter |-> {}, input |-> <<>>, arg |-> Undefined, before |-> <<>>,
   err |-> "", out |-> "", buffer |-> <<>>, val |-> Undefined, trace |-> <<>>]

----------------------------------------------------------------------------
(* The caller's operations.                                                *)

\* The value types a builder method declares: eq/ne take any value, gt/gte/
\* lt/lte a number or a string, in/nin an array.
Accepts(method, value) ==
  CASE method \in {"EQ", "NE"} -> TRUE
    [] method \in {"GT", "GTE", "LT", "LTE"} -> value.t \in {"number", "string"}
    [] method \in {"IN", "NIN"} -> value.t = "array"

\* b.eq(key, value), b.ne(...), ..., b.nin(...): a fresh comparison.
BuildComparison(keys, values) ==
  \E method \in ComparisonOperator, key \in keys, value \in values :
    /\ Accepts(method, value)
    /\ expr' = FilterExpressionBuilder(method, key, value)
    /\ built' = 0
    /\ result' = [NoResult EXCEPT !.call = "FilterExpressionBuilder",
                                  !.input = <<method, key, value>>,
                                  !.val = expr']
    /\ UNCHANGED heapVars

\* new Expression(type, new Key(key), right): construction without the builder.
NewExpression ==
  \E type \in NewTypes, key \in TreeKeys, right \in Rights :
    /\ type = "EQ" => right.node # "Value"
    /\ expr' = Expression(type, Key(key), right)
    /\ built' = 0
    /\ result' = NoResult
    /\ UNCHANGED heapVars

\* new Key(...), new Value(...), new Group(...): an operand constructed
\* without the builder.
NewOperand ==
  /\ expr' \in Operands
  /\ built' = 0
  /\ result' = NoResult
  /\ UNCHANGED heapVars

\* b.and(expr, other) or b.and(other, expr)
BuilderAnd ==
  /\ built < MaxBuilt
  /\ \E other \in Others :
       expr' \in {and(expr, other), and(other, expr)}
  /\ built' = built + 1
  /\ result' = NoResult
  /\ UNCHANGED heapVars

\* b.or(expr, other) or b.or(other, expr)
BuilderOr ==
  /\ built < MaxBuilt
  /\ \E other \in Others :
       expr' \in {or(expr, other), or(other, expr)}
  /\ built' = built + 1
  /\ result' = NoResult
  /\ UNCHANGED heapVars

\* b.group(expr)
BuilderGroup ==
  /\ built < MaxBuilt
  /\ expr.node = "Expression"
  /\ expr' = group(expr)
  /\ built' = built + 1
  /\ result' = NoResult
  /\ UNCHANGED heapVars

\* b.not(expr); the content's type is not enforced at run time, so a Group
\* is accepted as well.
BuilderNot ==
  /\ built < MaxBuilt
  /\ expr.node \in {"Expression", "Group"}
  /\ expr' = not(expr)
  /\ built' = built + 1
  /\ result' = NoResult
  /\ UNCHANGED heapVars

\* converter.convertExpression(expr)
ConvertExpression ==
  \E converter \in Converters :
    LET returned == convertExpression(converter, expr) IN
      /\ result' = [NoResult EXCEPT !.call = "convertExpression",
                                    !.converter = converter,
                                    !.arg = expr,
                                    !.err = returned.err,
                                    !.out = returned.out,
                                    !.trace = returned.trace]
      /\ UNCHANGED <<expr, built, heap, held, calls>>

\* converter.convertSymbolToContext(expr, context)
ConvertSymbolToContext ==
  /\ expr.node = "Expression"
  /\ \E buffer \in Buffers :
       LET context == convertSymbolToContext(expr, [StringBuilder EXCEPT !.buffer = buffer]) IN
         result' = [NoResult EXCEPT !.call = "convertSymbolToContext",
                                    !.arg = expr,
                                    !.before = buffer,
                                    !.err = context.err,
                                    !.buffer = context.buffer,
                                    !.trace = context.trace]
  /\ UNCHANGED <<expr, built, heap, held, calls>>

\* converter.negateOperand(expr)
NegateOperand ==
  /\ LET returned == negateOperand(expr) IN
       result' = [NoResult EXCEPT !.call = "negateOperand",
                                  !.arg = expr,
                                  !.err = returned.err,
                                  !.val = returned.val]
  /\ UNCHANGED <<expr, built, heap, held, calls>>

\* convertExpression on one of the trees held in memory; the call is logged
\* with the tree it was given, what it returned or threw and the
\* StringBuilder it wrote to.
ConvertExpressionOnHeap ==
  /\ Len(calls) < MaxCalls
  /\ \E i \in DOMAIN held, converter \in HeapConverters :
       LET root == held[i].root
           done == convertExpressionOnHeap(converter, heap, root)
       IN /\ heap' = done.heap
          /\ calls' = Append(calls,
               [call |-> "convertExpression", converter |-> converter,
                root |-> root, tree |-> OperandAt(heap, root),
                err |-> done.err, out |-> done.out, context |-> done.context])
          /\ result' = [NoResult EXCEPT !.call = "convertExpression",
                                        !.converter = converter,
                                        !.arg = OperandAt(heap, root),
                                        !.err = done.err, !.out = done.out]
  /\ UNCHANGED <<expr, built, held>>

\* negateOperand called directly on one of the trees held in memory.
NegateOperandOnHeap ==
  /\ Len(calls) < MaxCalls
  /\ \E i \in DOMAIN held :
       LET root == held[i].root
           done == negateOperandOnHeap(heap, root)
       IN /\ heap' = done.heap
          /\ calls' = Append(calls,
               [call |-> "negateOperand", converter |-> {},
                root |-> root, tree |-> OperandAt(heap, root),
                err |-> done.err, out |-> "", context |-> 0])
          /\ result' = [NoResult EXCEPT !.call = "negateOperand",
                                        !.arg = OperandAt(heap, root),
                                        !.err = done.err,
                                        !.val = OperandAt(done.heap, done.ref)]
  /\ UNCHANGED <<expr, built, held>>

----------------------------------------------------------------------------
(* Specifications.  Spec grows trees from plain comparisons;               *)
(* SpecComparison explores single comparisons over every kind of value.    *)

Init ==
  /\ \E method \in ComparisonOperator, key \in TreeKeys, value \in TreeValues :
       /\ Accepts(method, value)
       /\ expr = FilterExpressionBuilder(method, key, value)
  /\ built = 0
  /\ result = NoResult
  /\ heap = <<>>
  /\ held = <<>>
  /\ calls = <<>>

Next ==
  \/ BuildComparison(TreeKeys, TreeValues)
  \/ NewExpression
  \/ NewOperand
  \/ BuilderAnd
  \/ BuilderOr
  \/ BuilderGroup
  \/ BuilderNot
  \/ ConvertExpression
  \/ ConvertSymbolToContext
  \/ NegateOperand

Spec == Init /\ [][Next]_vars

InitComparison ==
  /\ \E method \in ComparisonOperator, key \in Keys, value \in Values :
       /\ Accepts(method, value)
       /\ expr = FilterExpressionBuilder(method, key, value)
  /\ built = 0
  /\ result = NoResult
  /\ heap = <<>>
  /\ held = <<>>
  /\ calls = <<>>

NextComparison ==
  \/ BuildComparison(Keys, Values)
  \/ BuilderNot
  \/ ConvertExpression
  \/ ConvertSymbolToContext
  \/ NegateOperand

SpecComparison == InitComparison /\ [][NextComparison]_vars

\* SpecHeap: a caller that built two trees, holds their roots and calls the
\* converter on them in any order.  `built` of a held root is the tree as
\* the caller built it.
InitHeap ==
  \E first \in HeldTrees, second \in HeldTrees :
    LET a == Construct(<<>>, first)
        b == Construct(a.heap, second)
    IN /\ heap = b.heap
       /\ held = << [root |-> a.ref, built |-> first],
                    [root |-> b.ref, built |-> second] >>
       /\ calls = <<>>
       /\ expr = first
       /\ built = 0
       /\ result = NoResult

NextHeap ==
  \/ ConvertExpressionOnHeap
  \/ NegateOperandOnHeap

SpecHeap == InitHeap /\ [][NextHeap]_vars

----------------------------------------------------------------------------
(* Vocabulary of the properties.                                           *)

IsComparison(operand) ==
  operand.node = "Expression" /\ operand.type \in ComparisonOperator

\* A comparison with a Key on the left and a Value on the right.
IsLeaf(operand) ==
  IsComparison(operand) /\ operand.left.node = "Key" /\ operand.right.node = "Value"

\* Trees of leaf comparisons under AND, OR, NOT and Group.
RECURSIVE WellFormed(_)
WellFormed(operand) ==
  IF operand.node = "Group"
  THEN operand.content.node = "Expression" /\ WellFormed(operand.content)
  ELSE IF operand.node # "Expression" THEN FALSE
  ELSE IF operand.type = "NOT" THEN WellFormed(operand.left)
  ELSE IF operand.type \in {"AND", "OR"}
  THEN WellFormed(operand.left) /\ WellFormed(operand.right)
  ELSE IsLeaf(operand)

RECURSIVE NotFree(_)
NotFree(operand) ==
  IF operand.node = "Group" THEN NotFree(operand.content)
  ELSE IF operand.node # "Expression" THEN TRUE
  ELSE operand.type # "NOT" /\ NotFree(operand.left) /\ NotFree(operand.right)

\* Some NOT of the tree lies underneath another NOT (`under`: a NOT is above).
RECURSIVE HasNestedNot(_, _)
HasNestedNot(operand, under) ==
  IF operand.node = "Group" THEN HasNestedNot(operand.content, under)
  ELSE IF operand.node # "Expression" THEN FALSE
  ELSE IF operand.type = "NOT" THEN under \/ HasNestedNot(operand.left, TRUE)
  ELSE HasNestedNot(operand.left, under) \/ HasNestedNot(operand.right, under)

\* The proposition a leaf comparison stands for: the comparison of its key
\* and value by EQ, GT, GTE or IN, which the leaf asserts or denies.
Positive(type) == type \in {"EQ", "GT", "GTE", "IN"}

Atom(leaf) ==
  <<leaf.left, leaf.right,
    IF Positive(leaf.type) THEN leaf.type ELSE TYPE_NEGATION_MAP(leaf.type)>>

RECURSIVE Atoms(_)
Atoms(operand) ==
  IF operand.node = "Group" THEN Atoms(operand.content)
  ELSE IF operand.node # "Expression" THEN {}
  ELSE IF operand.type = "NOT" THEN Atoms(operand.left)
  ELSE IF operand.type \in {"AND", "OR"}
  THEN Atoms(operand.left) \cup Atoms(operand.right)
  ELSE {Atom(operand)}

\* Truth of a tree under an assignment of truth values to the propositions;
\* a comparison and its inverse get opposite values.
RECURSIVE Holds(_, _)
Holds(operand, assignment) ==
  IF operand.node = "Group" THEN Holds(operand.content, assignment)
  ELSE IF operand.type = "NOT" THEN ~Holds(operand.left, assignment)
  ELSE IF operand.type = "AND"
  THEN Holds(operand.left, assignment) /\ Holds(operand.right, assignment)
  ELSE IF operand.type = "OR"
  THEN Holds(operand.left, assignment) \/ Holds(operand.right, assignment)
  ELSE assignment[Atom(operand)] = Positive(operand.type)

\* The inversion table of comparison tags, pair by pair.
Inverse(type) ==
  CASE type = "EQ" -> "NE" [] type = "NE" -> "EQ"
    [] type = "GT" -> "LTE" [] type = "LTE" -> "GT"
    [] type = "GTE" -> "LT" [] type = "LT" -> "GTE"
    [] type = "IN" -> "NIN" [] type = "NIN" -> "IN"

\* The token of each tag in the reference dialect.
Token(type) ==
  CASE type = "AND" -> " AND " [] type = "OR" -> " OR "
    [] type = "EQ" -> " = " [] type = "NE" -> " != "
    [] type = "LT" -> " < " [] type = "LTE" -> " <= "
    [] type = "GT" -> " > " [] type = "GTE" -> " >= "
    [] type = "IN" -> " IN " [] type = "NIN" -> " NOT IN "

\* The reference text of a scalar: a quoted string, or the canonical text
\* of a number or boolean.
ScalarText(value) ==
  CASE value.t = "string" -> "'" \o value.s \o "'"
    [] value.t = "number" -> IF IsNaN(value) THEN "NaN" ELSE ToString(value.n)
    [] value.t = "boolean" -> IF value.b THEN "true" ELSE "false"

\* The elements from..Len(elems), each but the last followed by ",".
RECURSIVE ElementsText(_, _)
ElementsText(elems, from) ==
  IF from > Len(elems) THEN ""
  ELSE ScalarText(elems[from])
         \o (IF from < Len(elems) THEN "," ELSE "")
         \o ElementsText(elems, from + 1)

ValueText(value) ==
  IF value.t = "array" THEN "[" \o ElementsText(value.elems, 1) \o "]"
  ELSE ScalarText(value)

\* The reference text of the comparison of tag `type` on a leaf's key and value.
LeafText(type, leaf) ==
  "'$." \o leaf.left.key \o "'" \o Token(type) \o ValueText(leaf.right.value)

\* An Expression occurs in the tree as a comparison without a Value on its
\* right (reached through AND, OR, NOT and Group).
RECURSIVE ContainsMalformed(_)
ContainsMalformed(operand) ==
  IF operand.node = "Group" THEN ContainsMalformed(operand.content)
  ELSE IF operand.node # "Expression" THEN FALSE
  ELSE IF operand.type = "NOT" THEN ContainsMalformed(operand.left)
  ELSE IF operand.type \in {"AND", "OR"}
  THEN ContainsMalformed(operand.left) \/ ContainsMalformed(operand.right)
  ELSE operand.right.node # "Value"

\* Every tag of the tree is a member of the Operator enum.
RECURSIVE KnownTags(_)
KnownTags(operand) ==
  IF operand.node = "Group" THEN KnownTags(operand.content)
  ELSE IF operand.node # "Expression" THEN TRUE
  ELSE operand.type \in Operator /\ KnownTags(operand.left) /\ KnownTags(operand.right)

\* The tree with every Group replaced by its content.
RECURSIVE Ungrouped(_)
Ungrouped(operand) ==
  IF operand.node = "Group" THEN Ungrouped(operand.content)
  ELSE IF operand.node # "Expression" THEN operand
  ELSE Expression(operand.type, Ungrouped(operand.left), Ungrouped(operand.right))

\* The values the claims call falsy.
Falsy == {Num(0), NaN, Str(""), Bool(FALSE)}

Converted(converter) ==
  result.call = "convertExpression" /\ result.converter = converter

----------------------------------------------------------------------------
(* C1.  A NOT at any position is resolved correctly: for every well-formed *)
(* tree, the NOT-free tree that convertExpression renders has the same     *)
(* truth value as the input tree under every truth assignment.             *)

\* The walk renders exactly RenderedOperand of its input, which has no NOT.
C1_RendersRenderedOperand ==
  (Converted(TestFilterExpressionConverter) /\ WellFormed(result.arg)) =>
    /\ result.err = ""
    /\ NotFree(RenderedOperand(result.arg))
    /\ result.out =
         convertExpression(TestFilterExpressionConverter, RenderedOperand(result.arg)).out

C1_NotResolvedCorrectly ==
  (Converted(TestFilterExpressionConverter) /\ WellFormed(result.arg)) =>
    \A assignment \in [Atoms(result.arg) -> BOOLEAN] :
      Holds(RenderedOperand(result.arg), assignment) = Holds(result.arg, assignment)

\* A NOT outside every other NOT is resolved correctly.
C1_OutermostNotResolved ==
  (Converted(TestFilterExpressionConverter) /\ WellFormed(result.arg)
     /\ ~HasNestedNot(result.arg, FALSE)) =>
    \A assignment \in [Atoms(result.arg) -> BOOLEAN] :
      Holds(RenderedOperand(result.arg), assignment) = Holds(result.arg, assignment)

C1_Witness ==
  /\ Converted(TestFilterExpressionConverter)
  /\ WellFormed(result.arg)
  /\ HasNestedNot(result.arg, FALSE)
  /\ result.err = ""

----------------------------------------------------------------------------
(* C2.  Double negation cancels: for every expression e without NOT nodes, *)
(* convertExpression(not(not(e))) returns the same string as               *)
(* convertExpression(e).                                                   *)

IsDoubleNegation(operand) ==
  /\ operand.node = "Expression" /\ operand.type = "NOT"
  /\ operand.left.node = "Expression" /\ operand.left.type = "NOT"
  /\ WellFormed(operand.left.left) /\ NotFree(operand.left.left)

C2_DoubleNegationCancels ==
  (result.call = "convertExpression" /\ IsDoubleNegation(result.arg)) =>
    LET direct == convertExpression(result.converter, result.arg.left.left) IN
      result.err = direct.err /\ result.out = direct.out

\* What the code does instead: not(not(e)) renders as not(e) does.
C2_DoubleNegationNegates ==
  (result.call = "convertExpression" /\ IsDoubleNegation(result.arg)) =>
    LET single == convertExpression(result.converter, result.arg.left) IN
      result.err = single.err /\ result.out = single.out

C2_Witness ==
  /\ Converted(TestFilterExpressionConverter)
  /\ IsDoubleNegation(result.arg)
  /\ result.err = ""

----------------------------------------------------------------------------
(* C3.  De Morgan: under the reference dialect convertExpression of        *)
(* not(and(a, b)) equals convertExpression of or(negate(a), negate(b)),    *)
(* and of not(or(a, b)) that of and(negate(a), negate(b)); for leaf        *)
(* comparisons a and b the output is the inverted a, " OR " (resp.         *)
(* " AND "), the inverted b, in the original order.                        *)

IsNegatedCombinator(operand) ==
  /\ operand.node = "Expression" /\ operand.type = "NOT"
  /\ operand.left.node = "Expression" /\ operand.left.type \in {"AND", "OR"}

C3_DeMorgan ==
  (Converted(TestFilterExpressionConverter) /\ IsNegatedCombinator(result.arg)) =>
    LET a == result.arg.left.left
        b == result.arg.left.right
        na == negateOperand(a)
        nb == negateOperand(b)
    IN IF na.err # "" THEN result.err = na.err
       ELSE IF nb.err # "" THEN result.err = nb.err
       ELSE LET dual == IF result.arg.left.type = "AND" THEN or(na.val, nb.val)
                        ELSE and(na.val, nb.val)
                direct == convertExpression(TestFilterExpressionConverter, dual)
            IN /\ result.err = direct.err
               /\ result.out = direct.out
               /\ (IsLeaf(a) /\ IsLeaf(b)) =>
                    /\ result.err = ""
                    /\ result.out =
                         LeafText(Inverse(a.type), a)
                           \o (IF result.arg.left.type = "AND" THEN " OR " ELSE " AND ")
                           \o LeafText(Inverse(b.type), b)

C3_Witness ==
  /\ Converted(TestFilterExpressionConverter)
  /\ IsNegatedCombinator(result.arg)
  /\ result.arg.left.type = "AND"
  /\ IsLeaf(result.arg.left.left) /\ IsLeaf(result.arg.left.right)
  /\ result.arg.left.left.left.key # result.arg.left.right.left.key
  /\ result.err = ""

----------------------------------------------------------------------------
(* C4.  Negating a leaf comparison keeps its left Key and right Value and  *)
(* replaces only the tag by its pairwise inverse, so convertExpression of  *)
(* not(cmp) renders the inverse symbol with the same key and value, and    *)
(* negate(negate(e)) is structurally equal to e for every leaf e.          *)

C4_NegateLeaf ==
  /\ (result.call = "negateOperand" /\ IsComparison(result.arg)) =>
       /\ result.err = ""
       /\ result.val = Expression(Inverse(result.arg.type), result.arg.left,
                                  result.arg.right)
       /\ negateOperand(result.val) = Returned(result.arg)
  /\ (/\ Converted(TestFilterExpressionConverter)
      /\ result.arg.node = "Expression" /\ result.arg.type = "NOT"
      /\ IsLeaf(result.arg.left)) =>
       /\ result.err = ""
       /\ result.out = LeafText(Inverse(result.arg.left.type), result.arg.left)

C4_Witness ==
  /\ result.call = "negateOperand"
  /\ IsLeaf(result.arg)
  /\ result.arg.type = "GTE"
  /\ result.val.type = "LT"

----------------------------------------------------------------------------
(* C5.  Structural validation: whenever the walk reaches an Expression     *)
(* whose tag is not NOT, AND or OR and whose right operand is not a Value, *)
(* convertExpression fails with the malformed-expression error and returns *)
(* no string, wherever the expression sits: inside AND/OR/Group and        *)
(* underneath a NOT.                                                       *)

WalkReachedMalformed ==
  \E i \in 1..Len(result.trace) :
    /\ result.trace[i].fn = "convertOperandToContext"
    /\ result.trace[i].arg.node = "Expression"
    /\ result.trace[i].arg.type \notin {"NOT", "AND", "OR"}
    /\ result.trace[i].arg.right.node # "Value"

C5_StructuralValidation ==
  /\ (result.call = "convertExpression" /\ WalkReachedMalformed) =>
       result.err = MalformedExpression /\ result.out = ""
  /\ (/\ Converted(TestFilterExpressionConverter)
      /\ KnownTags(result.arg)
      /\ ContainsMalformed(result.arg)) =>
       result.err = MalformedExpression /\ result.out = ""

C5_Witness ==
  /\ Converted(TestFilterExpressionConverter)
  /\ result.arg.node = "Expression" /\ result.arg.type = "NOT"
  /\ result.arg.left.node = "Group"
  /\ result.arg.left.content = eq("name", Num(0))
  /\ WalkReachedMalformed
  /\ result.err = MalformedExpression

----------------------------------------------------------------------------
(* C6.  convertSymbolToContext appends exactly the fixed token of each of  *)
(* the ten tags AND, OR, EQ, NE, LT, LTE, GT, GTE, IN, NIN, and NOT has no *)
(* symbol: with a NOT expression it raises the unsupported-operator error  *)
(* and appends nothing.                                                    *)

C6_SymbolTable ==
  result.call = "convertSymbolToContext" =>
    /\ result.arg.type \in Operator \ {"NOT"} =>
         /\ result.err = ""
         /\ result.buffer = Append(result.before, Token(result.arg.type))
    /\ result.arg.type = "NOT" =>
         /\ result.err = UnsupportedExpressionType
         /\ result.buffer = result.before

\* The part of C6 about the ten tags that have a symbol.
C6_TenTokens ==
  (result.call = "convertSymbolToContext" /\ result.arg.type \in Operator \ {"NOT"}) =>
    /\ result.err = ""
    /\ result.buffer = Append(result.before, Token(result.arg.type))

\* What the table holds for NOT.
C6_NotHasSymbol ==
  (result.call = "convertSymbolToContext" /\ result.arg.type = "NOT") =>
    /\ result.err = ""
    /\ result.buffer = Append(result.before, " NOT IN ")

C6_Witness ==
  /\ result.call = "convertSymbolToContext"
  /\ result.arg.type = "NOT"
  /\ result.before # <<>>

----------------------------------------------------------------------------
(* C7.  The framework defaults alone give the reference rendering: a       *)
(* converter that overrides only convertKeyToContext renders a Group as    *)
(* "(" content ")", a list as "[" elements separated by "," "]" and a      *)
(* non-NOT Expression as left, symbol, right; only convertKeyToContext has *)
(* no default.                                                             *)

C7_DefaultsGiveReference ==
  (Converted(KeyOnlyConverter) /\ WellFormed(result.arg)) =>
    LET reference == convertExpression(TestFilterExpressionConverter, result.arg) IN
      result.err = reference.err /\ result.out = reference.out

\* C7 as amended.  convertExpressionToContext has no default either: a
\* converter that overrides only convertKeyToContext fails on every tree
\* with "must be implemented in derived class".  The default group
\* delimiters are empty: a converter that overrides only convertKeyToContext
\* and convertExpressionToContext (left, symbol, right) renders a Group as
\* its bare content.  The default list rendering is "[", the elements
\* separated by ",", "]".
C7_Defaults ==
  /\ (Converted(KeyOnlyConverter) /\ WellFormed(result.arg)) =>
       result.err = MustBeImplemented
  /\ (Converted(BaseFilterExpressionConverter) /\ WellFormed(result.arg)) =>
       result.err = MustBeImplemented
  /\ (Converted(InfixConverter) /\ WellFormed(result.arg)) =>
       LET reference ==
             convertExpression(TestFilterExpressionConverter, Ungrouped(result.arg))
       IN /\ result.err = ""
          /\ result.out = reference.out
          /\ IsLeaf(result.arg) => result.out = LeafText(result.arg.type, result.arg)

C7_Witness ==
  /\ Converted(InfixConverter)
  /\ WellFormed(result.arg)
  /\ result.arg.node = "Expression" /\ result.arg.type = "AND"
  /\ result.arg.right.node = "Group"
  /\ result.err = ""

----------------------------------------------------------------------------
(* C8.  Each builder method eq/ne/gt/gte/lt/lte/in/nin(key, value) returns *)
(* an Expression with the matching tag, left = Key(key) and right =        *)
(* Value(value); the right operand is absent exactly when value is falsy   *)
(* and present for every other value, an empty array included.             *)

C8_BuilderComparison ==
  result.call = "FilterExpressionBuilder" =>
    LET method == result.input[1]
        key == result.input[2]
        value == result.input[3]
    IN /\ expr = result.val
       /\ result.val.node = "Expression"
       /\ result.val.type = method
       /\ result.val.left = Key(key)
       /\ (value \in Falsy) <=> (result.val.right = Undefined)
       /\ (value \notin Falsy) <=> (result.val.right = Value(value))

C8_Witness ==
  /\ result.call = "FilterExpressionBuilder"
  /\ result.input[1] = "IN"
  /\ result.input[3] = Arr(<<>>)
  /\ result.val.right = Value(Arr(<<>>))

----------------------------------------------------------------------------
(* C9.  Under the reference dialect every well-formed leaf comparison      *)
(* renders as '$.<key>', the symbol of its tag, then its value: a string   *)
(* single-quoted, a number or boolean as its canonical text, an array of   *)
(* n >= 1 elements as "[" + the elements in order with exactly n-1 ","     *)
(* separators + "]"; in("a", [2015, 2018]) renders as                      *)
(* '$.a' IN [2015,2018].                                                   *)

C9_LeafRendering ==
  (Converted(TestFilterExpressionConverter) /\ IsLeaf(result.arg)) =>
    /\ result.err = ""
    /\ result.out = LeafText(result.arg.type, result.arg)
    /\ result.arg = in("a", Arr(<<Num(2015), Num(2018)>>)) =>
         result.out = "'$.a' IN [2015,2018]"
    /\ result.arg = nin("a", Arr(<<Num(2015), Num(2018)>>)) =>
         result.out = "'$.a' NOT IN [2015,2018]"
    /\ result.arg = gte("a", Num(2015)) => result.out = "'$.a' >= 2015"
    /\ result.arg = eq("firstname", Str("john")) =>
         result.out = "'$.firstname' = 'john'"

C9_Witness ==
  /\ Converted(TestFilterExpressionConverter)
  /\ result.arg = in("a", Arr(<<Num(2015), Num(2018)>>))
  /\ result.out = "'$.a' IN [2015,2018]"

----------------------------------------------------------------------------
(* C10.  Tree shape is rendered exactly as built: for a NOT-free tree, the *)
(* rendering of and(l, r) is render(l) + " AND " + render(r), of or(l, r)  *)
(* render(l) + " OR " + render(r), of group(e) "(" + render(e) + ")";      *)
(* and(eq("name","martin"), group(or(eq("firstname","john"),               *)
(* eq("firstname","jack")))) renders as                                    *)
(* '$.name' = 'martin' AND ('$.firstname' = 'john' OR '$.firstname' = 'jack'). *)

Render(operand) == convertExpression(TestFilterExpressionConverter, operand)

C10_TreeShape ==
  (Converted(TestFilterExpressionConverter) /\ WellFormed(result.arg)
     /\ NotFree(result.arg)) =>
    /\ result.err = ""
    /\ result.arg.node = "Group" =>
         result.out = "(" \o Render(result.arg.content).out \o ")"
    /\ (result.arg.node = "Expression" /\ result.arg.type = "AND") =>
         result.out =
           Render(result.arg.left).out \o " AND " \o Render(result.arg.right).out
    /\ (result.arg.node = "Expression" /\ result.arg.type = "OR") =>
         result.out =
           Render(result.arg.left).out \o " OR " \o Render(result.arg.right).out
    /\ result.arg =
         and(eq("name", Str("martin")),
             group(or(eq("firstname", Str("john")), eq("firstname", Str("jack"))))) =>
         result.out =
           "'$.name' = 'martin' AND ('$.firstname' = 'john' OR '$.firstname' = 'jack')"

C10_Witness ==
  /\ Converted(TestFilterExpressionConverter)
  /\ result.arg =
       and(eq("name", Str("martin")),
           group(or(eq("firstname", Str("john")), eq("firstname", Str("jack")))))
  /\ result.out =
       "'$.name' = 'martin' AND ('$.firstname' = 'john' OR '$.firstname' = 'jack')"

----------------------------------------------------------------------------
(* C11.  Negating a Group always yields exactly one Group whose content is *)
(* an Expression and never another Group: the parenthesization is kept     *)
(* under negation (not(and(x, group(or(y, z)))) renders as                 *)
(* X' OR (Y' AND Z')), and when the group's content itself negates to a    *)
(* Group (group(not(group(e)))) the two levels collapse into one Group.    *)

\* The content of a Group negates to a Group.
ContentNegatesToGroup(operand) ==
  /\ operand.node = "Group"
  /\ negateOperand(operand.content).err = ""
  /\ negateOperand(operand.content).val.node = "Group"

C11_NegatedGroup ==
  /\ (result.call = "negateOperand" /\ result.arg.node = "Group") =>
       /\ WellFormed(result.arg) => result.err = ""
       /\ result.err = "" =>
            /\ result.val.node = "Group"
            /\ result.val.content.node = "Expression"
            /\ ContentNegatesToGroup(result.arg) =>
                 result.val = Group(negateOperand(result.arg.content).val.content)
            /\ ~ContentNegatesToGroup(result.arg) =>
                 result.val = Group(negateOperand(result.arg.content).val)
  /\ (/\ Converted(TestFilterExpressionConverter)
      /\ result.arg.node = "Expression" /\ result.arg.type = "NOT"
      /\ result.arg.left.node = "Group"
      /\ WellFormed(result.arg)) =>
       LET content == negateOperand(result.arg.left.content).val
           inner == IF content.node = "Group" THEN content.content ELSE content
       IN /\ result.err = ""
          /\ inner.node = "Expression"
          /\ result.out =
               "(" \o convertExpression(TestFilterExpressionConverter, inner).out \o ")"
  /\ (/\ Converted(TestFilterExpressionConverter)
      /\ result.arg =
           not(and(eq("name", Str("martin")),
                   group(or(eq("firstname", Str("john")),
                            eq("firstname", Str("jack"))))))) =>
       result.out =
         "'$.name' != 'martin' OR ('$.firstname' != 'john' AND '$.firstname' != 'jack')"

C11_Witness ==
  /\ result.call = "negateOperand"
  /\ result.arg = Group(not(group(eq("b", Num(1)))))
  /\ ContentNegatesToGroup(result.arg)
  /\ result.val = Group(ne("b", Num(1)))

\* The scenario of the test-suite is reached as well.
C11_Scenario ==
  /\ Converted(TestFilterExpressionConverter)
  /\ result.arg =
       not(and(eq("name", Str("martin")),
               group(or(eq("firstname", Str("john")), eq("firstname", Str("jack"))))))
  /\ result.err = ""

----------------------------------------------------------------------------
(* C12.  convertExpression is deterministic and never mutates its input:   *)
(* no call, successful or failing, changes a field of an object that       *)
(* existed before it (negation allocates new nodes), so every held tree    *)
(* stays as it was built; each call writes to a StringBuilder of its own;  *)
(* and every call on a tree, whatever calls on this or other trees came    *)
(* before, returns the string (or throws the error) that the tree as built *)
(* determines.                                                             *)

\* A step leaves every object that existed before it as it was.
C12_Frame ==
  \A a \in DOMAIN heap : a \in DOMAIN heap' /\ heap'[a] = heap[a]

ConvertCalls == { i \in DOMAIN calls : calls[i].call = "convertExpression" }

BuiltOf(root) == held[CHOOSE i \in DOMAIN held : held[i].root = root].built

C12_Deterministic ==
  /\ \A i \in DOMAIN held : OperandAt(heap, held[i].root) = held[i].built
  /\ \A i \in DOMAIN calls : calls[i].tree = BuiltOf(calls[i].root)
  /\ \A i \in ConvertCalls :
       /\ calls[i].err = convertExpression(calls[i].converter, BuiltOf(calls[i].root)).err
       /\ calls[i].out = convertExpression(calls[i].converter, BuiltOf(calls[i].root)).out
       /\ heap[calls[i].context].node = "StringBuilder"
       /\ calls[i].err = "" => Join(heap[calls[i].context].buffer) = calls[i].out
  /\ \A i \in ConvertCalls, j \in ConvertCalls :
       /\ i # j => calls[i].context # calls[j].context
       /\ (calls[i].root = calls[j].root /\ calls[i].converter = calls[j].converter) =>
            calls[i].out = calls[j].out /\ calls[i].err = calls[j].err

C12_NeverMutates == [][C12_Frame]_vars /\ []C12_Deterministic

\* Three calls: a tree converted, then a call on the other tree that throws,
\* then the first tree converted again by the same converter, each
\* conversion having allocated negated nodes.
C12_Witness ==
  /\ Len(calls) = 3
  /\ calls[1].call = "convertExpression" /\ calls[3].call = "convertExpression"
  /\ calls[1].root = calls[3].root /\ calls[2].root # calls[1].root
  /\ calls[1].converter = TestFilterExpressionConverter
  /\ calls[3].converter = TestFilterExpressionConverter
  /\ calls[1].err = "" /\ calls[1].out # "" /\ calls[3].out = calls[1].out
  /\ calls[2].err # ""
  /\ BuiltOf(calls[1].root) =
       not(and(eq("name", Str("martin")), group(lt("a", Num(2015)))))
  /\ calls[3].context > calls[1].context + 1

----------------------------------------------------------------------------
(* C13.  NOT is eliminated before rendering: for every operand made only   *)
(* of Expression and Group nodes, negateOperand returns a tree without any *)
(* NOT node, so during a convertExpression call neither                    *)
(* convertExpressionToContext nor convertSymbolToContext is ever invoked   *)
(* with a NOT expression; and negateOperand on a bare Key or Value         *)
(* (directly or as a child of an AND/OR being negated) raises an error     *)
(* instead of returning a tree.                                            *)

\* Groups, and Expressions that are NOT, AND or OR of such operands or a
\* comparison of a Key with a Value or with nothing.
RECURSIVE OnlyExpressionsAndGroups(_)
OnlyExpressionsAndGroups(operand) ==
  IF operand.node = "Group" THEN OnlyExpressionsAndGroups(operand.content)
  ELSE IF operand.node # "Expression" THEN FALSE
  ELSE IF operand.type = "NOT" THEN OnlyExpressionsAndGroups(operand.left)
  ELSE IF operand.type \in {"AND", "OR"}
  THEN OnlyExpressionsAndGroups(operand.left) /\ OnlyExpressionsAndGroups(operand.right)
  ELSE /\ operand.type \in ComparisonOperator
       /\ operand.left.node = "Key"
       /\ operand.right.node \in {"Value", "undefined"}

IsBare(operand) == operand.node \in {"Key", "Value"}

HasBareChild(operand) ==
  /\ operand.node = "Expression" /\ operand.type \in {"AND", "OR"}
  /\ IsBare(operand.left) \/ IsBare(operand.right)

C13_NotEliminated ==
  /\ (result.call = "negateOperand" /\ OnlyExpressionsAndGroups(result.arg)) =>
       result.err = "" /\ NotFree(result.val)
  /\ result.call = "convertExpression" =>
       \A i \in 1..Len(result.trace) :
         result.trace[i].fn \in {"convertExpressionToContext", "convertSymbolToContext"}
           => result.trace[i].arg.type # "NOT"
  /\ (result.call = "negateOperand" /\ IsBare(result.arg)) =>
       result.err = CannotNegateOperand /\ result.val = Undefined
  /\ (result.call = "negateOperand" /\ HasBareChild(result.arg)) =>
       /\ result.err # "" /\ result.val = Undefined
       /\ IsBare(result.arg.left) => result.err = CannotNegateOperand
  /\ (/\ result.call = "convertExpression"
      /\ result.arg.node = "Expression" /\ result.arg.type = "NOT"
      /\ HasBareChild(result.arg.left)) =>
       result.err # "" /\ result.out = ""

C13_Witness ==
  /\ result.call = "negateOperand"
  /\ HasBareChild(result.arg)
  /\ result.arg.left = Key("b")
  /\ OnlyExpressionsAndGroups(result.arg.right)
  /\ result.err = CannotNegateOperand

\* A NOT underneath an AND is rendered without a hook seeing a NOT.
C13_Rendered ==
  /\ Converted(TestFilterExpressionConverter)
  /\ result.arg.node = "Expression" /\ result.arg.type = "AND"
  /\ result.arg.left.node = "Expression" /\ result.arg.left.type = "NOT"
  /\ result.err = ""

====
